---- MODULE Spec2Model ----
(***************************************************************************)
(* Model of generator/value-resolvers.go: the type-directed resolver that  *)
(* turns a native type expression into an expression plus a list of        *)
(* preparatory statements (go/ast nodes).  AST nodes are records tagged    *)
(* with the go/ast type name in field k; a nil node is Nil; a nil slice is *)
(* the empty sequence (Go's append and range treat both alike).            *)
(***************************************************************************)
EXTENDS Integers, Sequences, FiniteSets, TLC

VARIABLES
    gen,        \* the generator's alias table (receiver of every method)
    op,         \* which entry point this run calls
    in,         \* the arguments of the call
    pc,         \* position inside the call
    out,        \* what ResolveValue returned (or how it ended)
    pi,         \* resolveFuncArgs: index into params.List
    ni,         \* resolveFuncArgs: index into param.Names
    i,          \* resolveFuncArgs: var i
    args,       \* resolveFuncArgs: args
    resolver,   \* resolveFuncArgs: named result resolver
    resolvers,  \* resolveFuncArgs: resolvers
    err,        \* resolveFuncArgs: named result err
    ret         \* resolveFuncArgs: the returned triple, once returned

vars == <<gen, op, in, pc, out, pi, ni, i, args, resolver, resolvers, err, ret>>

(***************************************************************************)
(* Bounds                                                                  *)
(***************************************************************************)
MaxTypeDepth == 2     \* nesting depth of the generated type expressions
MaxParams == 2        \* entries of a generated parameter list
StackLimit == 12      \* nested ResolveValue calls before the stack is exhausted

(***************************************************************************)
(* go/ast nodes                                                            *)
(***************************************************************************)
Nil == [k |-> "nil"]
NoErr == <<>>

Ident(n) == [k |-> "Ident", Name |-> n]
BasicLit(kind, value) == [k |-> "BasicLit", Kind |-> kind, Value |-> value]
StarExpr(x) == [k |-> "StarExpr", X |-> x]
ArrayType(len, elt) == [k |-> "ArrayType", Len |-> len, Elt |-> elt]
Field(names, type) == [Names |-> names, Type |-> type]
StructType(fields) == [k |-> "StructType", Fields |-> fields]
MapType(key, value) == [k |-> "MapType", Key |-> key, Value |-> value]
SelectorExpr(x, sel) == [k |-> "SelectorExpr", X |-> x, Sel |-> sel]
CallExpr(fun, a) == [k |-> "CallExpr", Fun |-> fun, Args |-> a]
IndexExpr(x, index) == [k |-> "IndexExpr", X |-> x, Index |-> index]
BinaryExpr(x, o, y) == [k |-> "BinaryExpr", X |-> x, Op |-> o, Y |-> y]
CompositeLit(type) == [k |-> "CompositeLit", Type |-> type]
AssignStmt(lhs, tok, rhs) == [k |-> "AssignStmt", Lhs |-> lhs, Tok |-> tok, Rhs |-> rhs]
VarDecl(name, type) ==
    [k |-> "DeclStmt", Tok |-> "var", Names |-> <<name>>, Type |-> type]
IncDecStmt(x, tok) == [k |-> "IncDecStmt", X |-> x, Tok |-> tok]
IfStmt(init, cond, body) == [k |-> "IfStmt", Init |-> init, Cond |-> cond, Body |-> body]
ForStmt(init, cond, post, body) ==
    [k |-> "ForStmt", Init |-> init, Cond |-> cond, Post |-> post, Body |-> body]

\* strconv.Itoa for non-negative i
Digit == <<"0", "1", "2", "3", "4", "5", "6", "7", "8", "9">>
RECURSIVE Itoa(_)
Itoa(n) == IF n < 10 THEN Digit[n + 1] ELSE Itoa(n \div 10) \o Digit[(n % 10) + 1]

(***************************************************************************)
(* Outcomes of a call.  A call returns the Go triple (expr, resolver, err) *)
(* with err = NoErr for a nil error and otherwise the chain of messages,   *)
(* outermost first; or it panics; or it exhausts the stack.  calls counts  *)
(* the ResolveValue invocations made, depth the deepest nesting reached.   *)
(***************************************************************************)
Return(expr, stmts, e, calls, depth) ==
    [k |-> "return", expr |-> expr, resolver |-> stmts, err |-> e,
     calls |-> calls, depth |-> depth]
Panic(calls, depth) ==
    [k |-> "panic", expr |-> Nil, resolver |-> <<>>, err |-> NoErr,
     calls |-> calls, depth |-> depth]
Overflow(calls, depth) ==
    [k |-> "overflow", expr |-> Nil, resolver |-> <<>>, err |-> NoErr,
     calls |-> calls, depth |-> depth]
Max(a, b) == IF a >= b THEN a ELSE b

IntNames == {"int", "int8", "int16", "int32", "rune", "int64", "uint", "uint8",
             "byte", "uint16", "uint32", "uint64", "uintptr"}
FloatNames == {"float32", "float64"}
BuiltinNames == {"bool", "string"} \cup IntNames \cup FloatNames

\* gen.getTypeAlias: the alias table maps a type name to its definition
getTypeAlias(g, typeStr) ==
    IF typeStr \in DOMAIN g
    THEN [type |-> g[typeStr], err |-> NoErr]
    ELSE [type |-> Nil, err |-> <<"not found: " \o typeStr>>]

RECURSIVE ResolveValue(_, _, _, _, _, _)
RECURSIVE resolveStructFields(_, _, _, _, _, _, _, _)

\* resolveIdent recursing on the identifier instead of the alias's definition
resolveIdent_sameType(g, name, jsValue, nativeType, dst, d) ==
    LET typeStr == nativeType.Name
        method == IF typeStr = "bool" THEN "Bool"
                  ELSE IF typeStr = "string" THEN "String"
                  ELSE IF typeStr \in IntNames THEN "Int"
                  ELSE "Float"
        typeCast == IF typeStr \in IntNames /\ typeStr # "int" THEN typeStr
                    ELSE IF typeStr \in FloatNames /\ typeStr # "float64" THEN typeStr
                    ELSE ""
        call == CallExpr(SelectorExpr(jsValue, Ident(method)), <<>>)
        expr == IF typeCast # "" THEN CallExpr(Ident(typeCast), <<call>>) ELSE call
    IN  IF typeStr \notin BuiltinNames
        THEN LET alias == getTypeAlias(g, typeStr)
             IN  IF alias.err # NoErr
                 THEN Return(Nil, <<>>, <<"Unresolved identifier">> \o alias.err, 0, d)
                 ELSE ResolveValue(g, Ident(typeStr), jsValue, nativeType, dst, d)
        ELSE IF dst # Nil
             THEN Return(dst, <<AssignStmt(<<dst>>, "=", <<expr>>)>>, NoErr, 0, d)
             ELSE Return(expr, <<>>, NoErr, 0, d)

resolveIdent(g, name, jsValue, nativeType, dst, d) ==
    LET typeStr == nativeType.Name
        method == IF typeStr = "bool" THEN "Bool"
                  ELSE IF typeStr = "string" THEN "String"
                  ELSE IF typeStr \in IntNames THEN "Int"
                  ELSE "Float"
        typeCast == IF typeStr \in IntNames /\ typeStr # "int" THEN typeStr
                    ELSE IF typeStr \in FloatNames /\ typeStr # "float64" THEN typeStr
                    ELSE ""
        call == CallExpr(SelectorExpr(jsValue, Ident(method)), <<>>)
        expr == IF typeCast # "" THEN CallExpr(Ident(typeCast), <<call>>) ELSE call
    IN  IF typeStr \notin BuiltinNames
        THEN LET alias == getTypeAlias(g, typeStr)
             IN  IF alias.err # NoErr
                 THEN Return(Nil, <<>>, <<"Unresolved identifier">> \o alias.err, 0, d)
                 ELSE ResolveValue(g, Ident(typeStr), jsValue, alias.type, dst, d)
        ELSE IF dst # Nil
             THEN Return(dst, <<AssignStmt(<<dst>>, "=", <<expr>>)>>, NoErr, 0, d)
             ELSE Return(expr, <<>>, NoErr, 0, d)

PointerGuard(jsValue, body) ==
    IfStmt(AssignStmt(<<Ident("jsType")>>, ":=",
                      <<CallExpr(SelectorExpr(jsValue, Ident("Type")), <<>>)>>),
           BinaryExpr(BinaryExpr(Ident("jsType"), "!=",
                                 SelectorExpr(Ident("js"), Ident("TypeUndefined"))),
                      "||",
                      BinaryExpr(Ident("jsType"), "!=",
                                 SelectorExpr(Ident("js"), Ident("TypeNull")))),
           body)

\* resolvePointer returning its destination and declaration beside the error
resolvePointer_keepsPartial(g, name, jsValue, nativeType, dst, d) ==
    LET dst1 == IF dst = Nil THEN name ELSE dst
        resolver0 == IF dst = Nil THEN <<VarDecl(name, nativeType)>> ELSE <<>>
        elt == ResolveValue(g, Ident(name.Name \o "Elt"), jsValue, nativeType.X, dst1, d)
    IN  IF elt.k # "return" THEN elt
        ELSE IF elt.err # NoErr
        THEN Return(dst1, resolver0, <<"Unresolved pointer element type">> \o elt.err,
                    elt.calls, elt.depth)
        ELSE Return(dst1, Append(resolver0, PointerGuard(jsValue, elt.resolver)),
                    NoErr, elt.calls, elt.depth)

resolvePointer(g, name, jsValue, nativeType, dst, d) ==
    LET dst1 == IF dst = Nil THEN name ELSE dst
        resolver0 == IF dst = Nil THEN <<VarDecl(name, nativeType)>> ELSE <<>>
        elt == ResolveValue(g, Ident(name.Name \o "Elt"), jsValue, nativeType.X, dst1, d)
    IN  IF elt.k # "return" THEN elt
        ELSE IF elt.err # NoErr
        THEN Return(Nil, <<>>, <<"Unresolved pointer element type">> \o elt.err,
                    elt.calls, elt.depth)
        ELSE Return(dst1, Append(resolver0, PointerGuard(jsValue, elt.resolver)),
                    NoErr, elt.calls, elt.depth)

ArrayLoop(idxIdent, lenExpr, body) ==
    ForStmt(AssignStmt(<<idxIdent>>, ":=", <<BasicLit("INT", "0")>>),
            BinaryExpr(idxIdent, "<", lenExpr),
            IncDecStmt(idxIdent, "++"),
            body)

\* resolveArray bounding every loop by the Len variable, fixed length or not
resolveArray_lenVar(g, name, jsValue, nativeType, dst, d) ==
    LET isSlice == nativeType.Len = Nil
        lenExpr == Ident(name.Name \o "Len")
        resolver0 ==
            IF isSlice
            THEN <<AssignStmt(<<lenExpr>>, ":=",
                              <<CallExpr(SelectorExpr(jsValue, Ident("Length")), <<>>)>>)>>
            ELSE <<>>
        resolver1 ==
            IF dst # Nil THEN resolver0
            ELSE IF isSlice
            THEN Append(resolver0,
                        AssignStmt(<<name>>, ":=",
                                   <<CallExpr(Ident("make"), <<nativeType, lenExpr>>)>>))
            ELSE Append(resolver0, VarDecl(name, nativeType))
        dst1 == IF dst = Nil THEN name ELSE dst
        idxIdent == Ident(name.Name \o "Idx")
        elt == ResolveValue(g, Ident(name.Name \o "Elt"),
                            CallExpr(SelectorExpr(jsValue, Ident("Index")), <<idxIdent>>),
                            nativeType.Elt,
                            IndexExpr(dst1, idxIdent), d)
    IN  IF elt.k # "return" THEN elt
        ELSE IF elt.err # NoErr
        THEN Return(Nil, <<>>, <<"Unresolved array element type">> \o elt.err,
                    elt.calls, elt.depth)
        ELSE Return(dst1, Append(resolver1, ArrayLoop(idxIdent, lenExpr, elt.resolver)),
                    NoErr, elt.calls, elt.depth)

resolveArray(g, name, jsValue, nativeType, dst, d) ==
    LET isSlice == nativeType.Len = Nil
        lenExpr == IF isSlice THEN Ident(name.Name \o "Len") ELSE nativeType.Len
        resolver0 ==
            IF isSlice
            THEN <<AssignStmt(<<lenExpr>>, ":=",
                              <<CallExpr(SelectorExpr(jsValue, Ident("Length")), <<>>)>>)>>
            ELSE <<>>
        resolver1 ==
            IF dst # Nil THEN resolver0
            ELSE IF isSlice
            THEN Append(resolver0,
                        AssignStmt(<<name>>, ":=",
                                   <<CallExpr(Ident("make"), <<nativeType, lenExpr>>)>>))
            ELSE Append(resolver0, VarDecl(name, nativeType))
        dst1 == IF dst = Nil THEN name ELSE dst
        idxIdent == Ident(name.Name \o "Idx")
        elt == ResolveValue(g, Ident(name.Name \o "Elt"),
                            CallExpr(SelectorExpr(jsValue, Ident("Index")), <<idxIdent>>),
                            nativeType.Elt,
                            IndexExpr(dst1, idxIdent), d)
    IN  IF elt.k # "return" THEN elt
        ELSE IF elt.err # NoErr
        THEN Return(Nil, <<>>, <<"Unresolved array element type">> \o elt.err,
                    elt.calls, elt.depth)
        ELSE Return(dst1, Append(resolver1, ArrayLoop(idxIdent, lenExpr, elt.resolver)),
                    NoErr, elt.calls, elt.depth)

\* resolveStructFields putting each field's statements before the earlier ones
RECURSIVE resolveStructFields_prepend(_, _, _, _, _, _, _, _)
resolveStructFields_prepend(g, name, jsValue, nativeType, dst, d, pos, acc) ==
    LET fields == nativeType.Fields
        fi == pos[1]
        fj == pos[2]
    IN  IF fi > Len(fields) THEN Return(dst, acc.resolver, NoErr, acc.calls, acc.depth)
        ELSE IF fj > Len(fields[fi].Names)
        THEN resolveStructFields_prepend(g, name, jsValue, nativeType, dst, d,
                                         <<fi + 1, 1>>, acc)
        ELSE LET fieldName == fields[fi].Names[fj]
                 r == ResolveValue(g, Ident(name.Name \o fieldName.Name),
                                   CallExpr(SelectorExpr(jsValue, Ident("Get")),
                                            <<fieldName>>),
                                   fields[fi].Type,
                                   SelectorExpr(dst, fieldName), d)
                 calls == acc.calls + r.calls
                 depth == Max(acc.depth, r.depth)
             IN  IF r.k = "panic" THEN Panic(calls, depth)
                 ELSE IF r.k = "overflow" THEN Overflow(calls, depth)
                 ELSE IF r.err # NoErr
                 THEN Return(Nil, <<>>, <<"Unresolved struct field type">> \o r.err,
                             calls, depth)
                 ELSE resolveStructFields_prepend(g, name, jsValue, nativeType, dst, d,
                                                  <<fi, fj + 1>>,
                                                  [resolver |-> r.resolver \o acc.resolver,
                                                   calls |-> calls, depth |-> depth])

\* The two nested range loops of resolveStruct, from field fi, name fj on,
\* with the statements accumulated so far in acc.
resolveStructFields(g, name, jsValue, nativeType, dst, d, pos, acc) ==
    LET fields == nativeType.Fields
        fi == pos[1]
        fj == pos[2]
    IN  IF fi > Len(fields) THEN Return(dst, acc.resolver, NoErr, acc.calls, acc.depth)
        ELSE IF fj > Len(fields[fi].Names)
        THEN resolveStructFields(g, name, jsValue, nativeType, dst, d, <<fi + 1, 1>>, acc)
        ELSE LET fieldName == fields[fi].Names[fj]
                 r == ResolveValue(g, Ident(name.Name \o fieldName.Name),
                                   CallExpr(SelectorExpr(jsValue, Ident("Get")),
                                            <<fieldName>>),
                                   fields[fi].Type,
                                   SelectorExpr(dst, fieldName), d)
                 calls == acc.calls + r.calls
                 depth == Max(acc.depth, r.depth)
             IN  IF r.k = "panic" THEN Panic(calls, depth)
                 ELSE IF r.k = "overflow" THEN Overflow(calls, depth)
                 ELSE IF r.err # NoErr
                 THEN Return(Nil, <<>>, <<"Unresolved struct field type">> \o r.err,
                             calls, depth)
                 ELSE resolveStructFields(g, name, jsValue, nativeType, dst, d,
                                          <<fi, fj + 1>>,
                                          [resolver |-> acc.resolver \o r.resolver,
                                           calls |-> calls, depth |-> depth])

resolveStruct(g, name, jsValue, nativeType, dst, d) ==
    LET resolver0 ==
            IF dst = Nil
            THEN <<AssignStmt(<<name>>, ":=", <<CompositeLit(nativeType)>>)>>
            ELSE <<>>
        dst1 == IF dst = Nil THEN name ELSE dst
    IN  resolveStructFields(g, name, jsValue, nativeType, dst1, d, <<1, 1>>,
                            [resolver |-> resolver0, calls |-> 0, depth |-> d])

\* d is the number of ResolveValue frames already on the stack
ResolveValue(g, name, jsValue, nativeType, dst, d) ==
    IF d >= StackLimit THEN Overflow(1, d + 1)
    ELSE LET r == IF nativeType.k = "Ident"
                  THEN resolveIdent(g, name, jsValue, nativeType, dst, d + 1)
                  ELSE IF nativeType.k = "StarExpr"
                  THEN resolvePointer(g, name, jsValue, nativeType, dst, d + 1)
                  ELSE IF nativeType.k = "ArrayType"
                  THEN resolveArray(g, name, jsValue, nativeType, dst, d + 1)
                  ELSE IF nativeType.k = "StructType"
                  THEN resolveStruct(g, name, jsValue, nativeType, dst, d + 1)
                  ELSE Panic(0, d + 1)
         IN  [r EXCEPT !.calls = @ + 1]

(***************************************************************************)
(* resolveFuncArgs, one action per step of its loops                       *)
(***************************************************************************)
\* ast.FieldList.NumFields: an entry without names counts as one
RECURSIVE NumFields(_)
NumFields(list) ==
    IF list = <<>> THEN 0
    ELSE (IF Len(Head(list).Names) = 0 THEN 1 ELSE Len(Head(list).Names))
         + NumFields(Tail(list))

\* the source indexed by the entry being resolved instead of the name counter
ArgSource_byEntry(n) == IndexExpr(Ident("args"), BasicLit("INT", Itoa(pi - 1)))
ArgSource(n) == IndexExpr(Ident("args"), BasicLit("INT", Itoa(n)))

NoResult == [k |-> "none", expr |-> Nil, resolver |-> <<>>, err |-> NoErr,
             calls |-> 0, depth |-> 0]
NoReturn == [returned |-> FALSE, args |-> <<>>, resolver |-> <<>>, err |-> NoErr]

\* ResolveValue called directly
CallResolveValue ==
    /\ pc = "start"
    /\ op = "ResolveValue"
    /\ out' = ResolveValue(gen, in.name, in.jsValue, in.nativeType, in.dst, 0)
    /\ pc' = "done"
    /\ UNCHANGED <<gen, op, in, pi, ni, i, args, resolver, resolvers, err, ret>>

\* var i int; args = make([]ast.Expr, params.NumFields()); resolvers := make(...)
FuncArgsEnter ==
    /\ pc = "start"
    /\ op = "resolveFuncArgs"
    /\ i' = 0
    /\ args' = [j \in 1..NumFields(in.params) |-> Nil]
    /\ resolvers' = <<>>
    /\ pi' = 1
    /\ ni' = 1
    /\ pc' = "loop"
    /\ UNCHANGED <<gen, op, in, out, resolver, err, ret>>

\* the inner range over param.Names is exhausted: next param
FuncArgsNextParam ==
    /\ pc = "loop"
    /\ pi <= Len(in.params)
    /\ ni > Len(in.params[pi].Names)
    /\ pi' = pi + 1
    /\ ni' = 1
    /\ UNCHANGED <<gen, op, in, pc, out, i, args, resolver, resolvers, err, ret>>

ArgResult ==
    ResolveValue(gen, in.params[pi].Names[ni], ArgSource(i), in.params[pi].Type, Nil, 0)

\* one iteration of the inner loop, the argument resolved (appending a nil
\* resolver appends nothing, so `if resolver != nil` needs no case of its own)
FuncArgsResolve ==
    /\ pc = "loop"
    /\ pi <= Len(in.params)
    /\ ni <= Len(in.params[pi].Names)
    /\ LET r == ArgResult
       IN  /\ r.k = "return"
           /\ r.err = NoErr
           /\ out' = r
           /\ args' = [args EXCEPT ![i + 1] = r.expr]
           /\ resolver' = r.resolver
           /\ err' = r.err
           /\ resolvers' = resolvers \o r.resolver
    /\ i' = i + 1
    /\ ni' = ni + 1
    /\ UNCHANGED <<gen, op, in, pc, pi, ret>>

\* one iteration of the inner loop, err != nil: return nil, nil, wrapped error
FuncArgsFail ==
    /\ pc = "loop"
    /\ pi <= Len(in.params)
    /\ ni <= Len(in.params[pi].Names)
    /\ LET r == ArgResult
       IN  /\ r.k = "return"
           /\ r.err # NoErr
           /\ out' = r
           /\ args' = [args EXCEPT ![i + 1] = r.expr]
           /\ resolver' = r.resolver
           /\ err' = r.err
           /\ ret' = [returned |-> TRUE, args |-> <<>>, resolver |-> <<>>,
                      err |-> <<"Unresolved argument">> \o r.err]
    /\ pc' = "done"
    /\ UNCHANGED <<gen, op, in, pi, ni, i, resolvers>>

\* the call panicked or ran out of stack: nothing is returned
FuncArgsCrash ==
    /\ pc = "loop"
    /\ pi <= Len(in.params)
    /\ ni <= Len(in.params[pi].Names)
    /\ LET r == ArgResult
       IN  /\ r.k # "return"
           /\ out' = r
    /\ pc' = "crashed"
    /\ UNCHANGED <<gen, op, in, pi, ni, i, args, resolver, resolvers, err, ret>>

\* return args, resolvers, err
FuncArgsReturn ==
    /\ pc = "loop"
    /\ pi > Len(in.params)
    /\ ret' = [returned |-> TRUE, args |-> args, resolver |-> resolvers, err |-> err]
    /\ pc' = "done"
    /\ UNCHANGED <<gen, op, in, out, pi, ni, i, args, resolver, resolvers, err>>

(***************************************************************************)
(* Inputs                                                                  *)
(***************************************************************************)
ScalarNames == {"string", "int", "int32", "float64"}
AliasNames == {"T", "U"}
LeafTypes == {Ident(n) : n \in ScalarNames \cup AliasNames}

SliceOf(t) == ArrayType(Nil, t)
Array3(t) == ArrayType(BasicLit("INT", "3"), t)
Struct1(f, t) == StructType(<<Field(<<Ident(f)>>, t)>>)
Struct2(f1, t1, f2, t2) == StructType(<<Field(<<Ident(f1)>>, t1), Field(<<Ident(f2)>>, t2)>>)

SecondFieldTypes == {Ident("string"), SliceOf(Ident("int"))}

Wrap(S) ==
    {StarExpr(t) : t \in S} \cup {SliceOf(t) : t \in S} \cup {Array3(t) : t \in S}
    \cup {Struct1("B", t) : t \in S}
    \cup {Struct2("A", t, "AB", u) : t \in S, u \in SecondFieldTypes}

RECURSIVE TypesUpTo(_)
TypesUpTo(d) == IF d = 0 THEN LeafTypes ELSE LeafTypes \cup Wrap(TypesUpTo(d - 1))

\* shapes the documentation singles out, the remaining kinds of scalar, a field
\* declaring two names, and a type the type switch does not handle
CountItems == Struct2("Count", Ident("int32"),
                      "Items", StarExpr(SliceOf(Ident("string"))))
NestedAB == Struct2("A", Struct1("B", SliceOf(Ident("int"))), "AB", SliceOf(Ident("int")))
StringToInt == MapType(Ident("string"), Ident("int"))
ScenarioTypes ==
    {CountItems, NestedAB, StringToInt, StarExpr(StringToInt),
     Ident("bool"), Ident("float32"), Ident("uint8"),
     StarExpr(StarExpr(Ident("int"))),
     Struct2("A", Ident("T"), "AB", Ident("U")),
     StructType(<<Field(<<Ident("A"), Ident("B")>>, SliceOf(Ident("int"))),
                  Field(<<Ident("C")>>, StarExpr(Ident("string")))>>)}

InputTypes == TypesUpTo(MaxTypeDepth) \cup ScenarioTypes

\* alias tables: empty, a chain, a self-alias, a two-name cycle, composites,
\* and a cycle through composites
AliasTables ==
    { <<>>,
      ("T" :> Ident("int32")) @@ ("U" :> Ident("T")),
      ("T" :> Ident("T")),
      ("T" :> Ident("U")) @@ ("U" :> Ident("T")),
      ("T" :> SliceOf(Ident("int"))) @@ ("U" :> Struct1("B", Ident("string"))),
      ("T" :> StarExpr(Ident("U"))) @@ ("U" :> SliceOf(Ident("T"))) }

FirstParamTypes == TypesUpTo(0) \cup {Ident("bool"), SliceOf(Ident("int")),
                                      StarExpr(Ident("int")), Struct1("B", Ident("T")),
                                      NestedAB, CountItems, StringToInt}
RestParamTypes == {Ident("string"), Ident("T"), SliceOf(Ident("int"))}

\* the names an entry at position p of a parameter list may declare
ParamNames(p) ==
    IF p = 1
    THEN {<<>>, <<Ident("p1")>>, <<Ident("p1"), Ident("q1")>>}
    ELSE {<<>>, <<Ident("p" \o Itoa(p))>>}

RECURSIVE ParamLists(_)
ParamLists(n) ==
    IF n = 0 THEN {<<>>}
    ELSE LET shorter == ParamLists(n - 1)
         IN  shorter \cup
             {Append(l, Field(ns, t)) :
                 l \in {s \in shorter : Len(s) = n - 1}, ns \in ParamNames(n),
                 t \in IF n = 1 THEN FirstParamTypes ELSE RestParamTypes}

Init ==
    /\ gen \in AliasTables
    /\ op \in {"ResolveValue", "resolveFuncArgs"}
    /\ \/ /\ op = "ResolveValue"
          /\ in \in {[name |-> Ident("x"), jsValue |-> Ident("v"), nativeType |-> t,
                      dst |-> dd, params |-> <<>>] :
                        t \in InputTypes, dd \in {Nil, Ident("dst")}}
       \/ /\ op = "resolveFuncArgs"
          /\ in \in {[name |-> Nil, jsValue |-> Nil, nativeType |-> Nil,
                      dst |-> Nil, params |-> l] : l \in ParamLists(MaxParams)}
    /\ pc = "start"
    /\ out = NoResult
    /\ pi = 1
    /\ ni = 1
    /\ i = 0
    /\ args = <<>>
    /\ resolver = <<>>
    /\ resolvers = <<>>
    /\ err = NoErr
    /\ ret = NoReturn

Next ==
    \/ CallResolveValue
    \/ FuncArgsEnter
    \/ FuncArgsNextParam
    \/ FuncArgsResolve
    \/ FuncArgsFail
    \/ FuncArgsCrash
    \/ FuncArgsReturn

Spec == Init /\ [][Next]_vars

(***************************************************************************)
(* Reading the emitted code                                                *)
(***************************************************************************)
\* the kinds syscall/js reports for a value
JsTypes == {"TypeUndefined", "TypeNull", "TypeBoolean", "TypeNumber", "TypeString",
            "TypeObject"}

\* the value of an operand of the guard when jsType holds kind
EvalOperand(e, kind) ==
    IF e.k = "Ident" /\ e.Name = "jsType" THEN kind
    ELSE IF e.k = "SelectorExpr" THEN e.Sel.Name
    ELSE "?"

\* Go's evaluation of a boolean expression over ==, !=, || and &&
RECURSIVE EvalBool(_, _)
EvalBool(e, kind) ==
    IF e.Op = "||" THEN EvalBool(e.X, kind) \/ EvalBool(e.Y, kind)
    ELSE IF e.Op = "&&" THEN EvalBool(e.X, kind) /\ EvalBool(e.Y, kind)
    ELSE IF e.Op = "!=" THEN EvalOperand(e.X, kind) # EvalOperand(e.Y, kind)
    ELSE EvalOperand(e.X, kind) = EvalOperand(e.Y, kind)

\* the statements of an if statement that run when the source has this kind
Executed(ifStmt, kind) == IF EvalBool(ifStmt.Cond, kind) THEN ifStmt.Body ELSE <<>>

Last(seq) == seq[Len(seq)]

IsLengthQuery(s) ==
    /\ s.k = "AssignStmt" /\ s.Tok = ":="
    /\ s.Rhs[1].k = "CallExpr" /\ s.Rhs[1].Fun.k = "SelectorExpr"
    /\ s.Rhs[1].Fun.Sel = Ident("Length")
IsMake(s) ==
    /\ s.k = "AssignStmt" /\ s.Tok = ":="
    /\ s.Rhs[1].k = "CallExpr" /\ s.Rhs[1].Fun = Ident("make")
IsRecordAlloc(s) ==
    /\ s.k = "AssignStmt" /\ s.Tok = ":=" /\ s.Rhs[1].k = "CompositeLit"
IsVarDecl(s) == s.k = "DeclStmt"
IsLoop(s) == s.k = "ForStmt"
IsGuard(s) == s.k = "IfStmt"

\* the names the statements of one block declare, in order
RECURSIVE Declared(_)
Declared(stmts) ==
    IF stmts = <<>> THEN <<>>
    ELSE LET s == Head(stmts)
             here == IF s.k = "AssignStmt" /\ s.Tok = ":=" THEN <<s.Lhs[1].Name>>
                     ELSE IF s.k = "DeclStmt" THEN <<s.Names[1].Name>>
                     ELSE <<>>
         IN  here \o Declared(Tail(stmts))

\* a statement list and every block nested in it
RECURSIVE Blocks(_)
Blocks(stmts) ==
    {stmts} \cup UNION {Blocks(stmts[j].Body) :
                          j \in {n \in 1..Len(stmts) : stmts[n].k \in {"IfStmt", "ForStmt"}}}

NoDuplicates(seq) == \A a, b \in 1..Len(seq) : a # b => seq[a] # seq[b]

RECURSIVE Concat(_)
Concat(seqs) == IF seqs = <<>> THEN <<>> ELSE Head(seqs) \o Concat(Tail(seqs))

\* the (name, type) pairs of a field list, one per declared name, in order
RECURSIVE NamedFields(_)
NamedFields(list) ==
    IF list = <<>> THEN <<>>
    ELSE [j \in 1..Len(Head(list).Names) |->
             [name |-> Head(list).Names[j], type |-> Head(list).Type]]
         \o NamedFields(Tail(list))

(***************************************************************************)
(* Reading the type shapes                                                 *)
(***************************************************************************)
SetMax(S) == IF S = {} THEN 0 ELSE CHOOSE m \in S : \A n \in S : n <= m

\* the alias names a shape refers to where the resolver looks
RECURSIVE IdentsIn(_)
IdentsIn(t) ==
    IF t.k = "Ident" THEN (IF t.Name \in BuiltinNames THEN {} ELSE {t.Name})
    ELSE IF t.k = "StarExpr" THEN IdentsIn(t.X)
    ELSE IF t.k = "ArrayType" THEN IdentsIn(t.Elt)
    ELSE IF t.k = "StructType"
    THEN UNION {IdentsIn(t.Fields[j].Type) :
                  j \in {n \in 1..Len(t.Fields) : Len(t.Fields[n].Names) > 0}}
    ELSE {}

RECURSIVE Unhandled(_)
Unhandled(t) ==
    IF t.k = "Ident" THEN FALSE
    ELSE IF t.k = "StarExpr" THEN Unhandled(t.X)
    ELSE IF t.k = "ArrayType" THEN Unhandled(t.Elt)
    ELSE IF t.k = "StructType"
    THEN \E j \in 1..Len(t.Fields) : Len(t.Fields[j].Names) > 0 /\ Unhandled(t.Fields[j].Type)
    ELSE TRUE

RECURSIVE Closure(_, _)
Closure(S, g) ==
    LET S2 == S \cup UNION {IdentsIn(g[n]) : n \in S \cap DOMAIN g}
    IN  IF S2 = S THEN S ELSE Closure(S2, g)

Reachable(t, g) == Closure(IdentsIn(t), g)
Cyclic(n, g) == n \in DOMAIN g /\ n \in Closure(IdentsIn(g[n]), g)
Acyclic(t, g) == \A n \in Reachable(t, g) : ~Cyclic(n, g)
Handled(t, g) ==
    ~Unhandled(t) /\ \A n \in Reachable(t, g) \cap DOMAIN g : ~Unhandled(g[n])
ContainsMissing(t, g) == \E n \in Reachable(t, g) : n \notin DOMAIN g

\* depth and size of the shape tree with every alias replaced by its definition
RECURSIVE ExpandedDepth(_, _)
ExpandedDepth(t, g) ==
    IF t.k = "Ident"
    THEN (IF t.Name \in DOMAIN g /\ t.Name \notin BuiltinNames
          THEN 1 + ExpandedDepth(g[t.Name], g) ELSE 1)
    ELSE IF t.k = "StarExpr" THEN 1 + ExpandedDepth(t.X, g)
    ELSE IF t.k = "ArrayType" THEN 1 + ExpandedDepth(t.Elt, g)
    ELSE IF t.k = "StructType"
    THEN 1 + SetMax({ExpandedDepth(t.Fields[j].Type, g) :
                       j \in {n \in 1..Len(t.Fields) : Len(t.Fields[n].Names) > 0}})
    ELSE 1

RECURSIVE ExpandedSize(_, _)
RECURSIVE SumSizes(_, _)
SumSizes(fields, g) ==
    IF fields = <<>> THEN 0
    ELSE Len(Head(fields).Names) * ExpandedSize(Head(fields).Type, g)
         + SumSizes(Tail(fields), g)
ExpandedSize(t, g) ==
    IF t.k = "Ident"
    THEN (IF t.Name \in DOMAIN g /\ t.Name \notin BuiltinNames
          THEN 1 + ExpandedSize(g[t.Name], g) ELSE 1)
    ELSE IF t.k = "StarExpr" THEN 1 + ExpandedSize(t.X, g)
    ELSE IF t.k = "ArrayType" THEN 1 + ExpandedSize(t.Elt, g)
    ELSE IF t.k = "StructType" THEN 1 + SumSizes(t.Fields, g)
    ELSE 1

Resolved == pc = "done" /\ op = "ResolveValue" /\ out.k = "return" /\ out.err = NoErr
ArgsReturned == op = "resolveFuncArgs" /\ ret.returned

(***************************************************************************)
(* Properties                                                              *)
(***************************************************************************)

\* C1: the guard resolvePointer emits is false for a source whose kind is
\* undefined and for one whose kind is null, so that no inner statement runs
\* and the destination keeps its zero value.
C1_GuardSkipsNullAndUndefined ==
    (Resolved /\ in.nativeType.k = "StarExpr") =>
        \A kind \in {"TypeUndefined", "TypeNull"} :
            /\ ~EvalBool(Last(out.resolver).Cond, kind)
            /\ Executed(Last(out.resolver), kind) = <<>>

\* C2: Record{Count: int32, Items: Optional(Sequence(string, dynamic))} with no
\* destination yields a record allocation, the Count assignment of the Int
\* accessor cast to int32, and a guard whose body is a length query, a slice
\* allocation and a loop assigning the String accessor of the indexed source
\* to the indexed slice element.
C2_CountItemsScenario ==
    (Resolved /\ in.nativeType = CountItems /\ in.dst = Nil) =>
        LET r == out.resolver
            src(f) == CallExpr(SelectorExpr(in.jsValue, Ident("Get")), <<Ident(f)>>)
        IN  /\ Len(r) = 3
            /\ IsRecordAlloc(r[1])
            /\ r[2] = AssignStmt(<<SelectorExpr(in.name, Ident("Count"))>>, "=",
                                 <<CallExpr(Ident("int32"),
                                            <<CallExpr(SelectorExpr(src("Count"), Ident("Int")),
                                                       <<>>)>>)>>)
            /\ IsGuard(r[3])
            /\ Len(r[3].Body) = 3
            /\ IsLengthQuery(r[3].Body[1])
            /\ IsMake(r[3].Body[2])
            /\ IsLoop(r[3].Body[3])
            /\ Len(r[3].Body[3].Body) = 1
            /\ LET a == r[3].Body[3].Body[1]
               IN  /\ a.k = "AssignStmt"
                   /\ a.Lhs[1].k = "IndexExpr"
                   /\ a.Rhs[1].k = "CallExpr"
                   /\ a.Rhs[1].Fun.Sel = Ident("String")
                   /\ a.Rhs[1].Fun.X.Fun.Sel = Ident("Index")
                   /\ a.Rhs[1].Fun.X.Fun.X = src("Items")

\* C3: in the statements one resolveFuncArgs call returns, no two declaring
\* statements of the same block declare the same name.
C3_NoNameCollision ==
    (ArgsReturned /\ ret.err = NoErr) =>
        \A b \in Blocks(ret.resolver) : NoDuplicates(Declared(b))

\* C9: the statements inside the guard of an Optional(T) write the converted
\* value into the pointee of the destination (the destination dereferenced
\* once), never into the pointer-typed destination itself.
C9_InnerWritesPointee ==
    (Resolved /\ in.nativeType.k = "StarExpr") =>
        LET body == Last(out.resolver).Body
            ptr == out.expr
        IN  /\ \A j \in 1..Len(body) :
                   body[j].k = "AssignStmt" => body[j].Lhs[1] # ptr
            /\ (in.nativeType.X.k = "Ident" /\ in.nativeType.X.Name \in BuiltinNames)
                   => /\ Len(body) = 1
                      /\ body[1].Lhs = <<StarExpr(ptr)>>

\* C10: when resolveFuncArgs returns without error, every position of the
\* returned argument list holds an expression, and the list is as long as
\* the number of expressions resolved.
C10_ArgsAllSet ==
    (ArgsReturned /\ ret.err = NoErr) =>
        /\ \A j \in 1..Len(ret.args) : ret.args[j] # Nil
        /\ Len(ret.args) = i

Wrapper(t) ==
    IF t.k = "StarExpr" THEN "Unresolved pointer element type"
    ELSE IF t.k = "ArrayType" THEN "Unresolved array element type"
    ELSE IF t.k = "StructType" THEN "Unresolved struct field type"
    ELSE "Unresolved identifier"

C6_SequenceLengthDispatch ==
    (Resolved /\ in.nativeType.k = "ArrayType") =>
        LET r == out.resolver
            fixed == in.nativeType.Len # Nil
            nq == IF fixed THEN 0 ELSE 1
            na == IF in.dst = Nil THEN 1 ELSE 0
            loop == Last(r)
        IN  /\ Len(r) = nq + na + 1
            /\ {j \in 1..Len(r) : IsLoop(r[j])} = {Len(r)}
            /\ loop.Init = AssignStmt(<<loop.Cond.X>>, ":=", <<BasicLit("INT", "0")>>)
            /\ loop.Cond.Op = "<"
            /\ loop.Post = IncDecStmt(loop.Cond.X, "++")
            /\ {j \in 1..Len(r) : IsLengthQuery(r[j])} = 1..nq
            /\ fixed => loop.Cond.Y = in.nativeType.Len
            /\ ~fixed => /\ loop.Cond.Y = r[1].Lhs[1]
                         /\ r[1].Rhs[1].Fun.X = in.jsValue
            /\ {j \in 1..Len(r) : IsMake(r[j]) \/ IsVarDecl(r[j])}
                   = {j \in {nq + 1} : na = 1}
            /\ na = 1 => (IF fixed THEN IsVarDecl(r[nq + 1]) ELSE IsMake(r[nq + 1]))

C6_Witness ==
    /\ Resolved
    /\ in.nativeType.k = "ArrayType"
    /\ in.nativeType.Len = Nil
    /\ in.nativeType.Elt.k = "ArrayType"
    /\ in.dst = Nil
    /\ Len(out.resolver) = 3

\* C7: resolveFuncArgs resolves the k-th declared name (from 0, counting across
\* entries that declare several names) from position k of the incoming
\* arguments and stores its expression at position k; the statements returned
\* are those of each name in declaration order, one name's after another's.
C7_ArgumentPositions ==
    (ArgsReturned /\ ret.err = NoErr) =>
        LET nf == NamedFields(in.params)
            each == [n \in 1..Len(nf) |->
                        ResolveValue(gen, nf[n].name,
                                     IndexExpr(Ident("args"), BasicLit("INT", Itoa(n - 1))),
                                     nf[n].type, Nil, 0)]
        IN  /\ i = Len(nf)
            /\ \A n \in 1..Len(nf) : ret.args[n] = each[n].expr
            /\ ret.resolver = Concat([n \in 1..Len(nf) |-> each[n].resolver])

C7_Witness ==
    /\ ArgsReturned
    /\ ret.err = NoErr
    /\ Len(in.params) = 2
    /\ Len(in.params[1].Names) = 2
    /\ Len(in.params[2].Names) = 1
    /\ in.params[1].Type = SliceOf(Ident("int"))
    /\ in.params[2].Type = SliceOf(Ident("int"))
    /\ Len(ret.resolver) = 9

\* C8: resolveStruct returns the record allocation (there exactly when no
\* destination was supplied) followed by the statements of each field in
\* declaration order, each field read by name from the outer source and
\* written to that field of the destination record.
C8_RecordFieldOrder ==
    (Resolved /\ in.nativeType.k = "StructType") =>
        LET nf == NamedFields(in.nativeType.Fields)
            dest == IF in.dst = Nil THEN in.name ELSE in.dst
            alloc == IF in.dst = Nil
                     THEN <<AssignStmt(<<in.name>>, ":=", <<CompositeLit(in.nativeType)>>)>>
                     ELSE <<>>
            each == [n \in 1..Len(nf) |->
                        ResolveValue(gen, Ident(in.name.Name \o nf[n].name.Name),
                                     CallExpr(SelectorExpr(in.jsValue, Ident("Get")),
                                              <<nf[n].name>>),
                                     nf[n].type,
                                     SelectorExpr(dest, nf[n].name), 1).resolver]
        IN  /\ out.expr = dest
            /\ out.resolver = alloc \o Concat(each)

C8_Witness ==
    /\ Resolved
    /\ in.nativeType = NestedAB
    /\ in.dst = Nil
    /\ Len(out.resolver) = 5

====
